---- MODULE Spec2Model ----
(***************************************************************************)
(* Model of setup_inbound.py: the one-shot reconciliation procedure main() *)
(* that binds VOBIZ_INBOUND_NUMBER to one inbound SIP trunk and one        *)
(* dispatch rule.  The remote control plane is modelled as a store of      *)
(* trunks and dispatch rules with identifiers that are never reused; a     *)
(* remote call either succeeds and takes effect or raises and has no       *)
(* effect.  List calls return the items in ascending identifier order.     *)
(* Each awaited call is one step.  The step that ends the try block (a call *)
(* that raises, or the creation of the dispatch rule) enters the finally   *)
(* clause and calls lk.aclose(); the client is released when that call     *)
(* completes, in a step of its own.                                        *)
(***************************************************************************)
EXTENDS Integers, Sequences, FiniteSets, TLC

\* ---------------------------------------------------------------- bounds
MaxInitTrunks == 2      \* trunks that may exist before the first run
MaxInitRules == 2       \* dispatch rules that may exist before the first run
MaxRuns == 2            \* invocations of the script in one behaviour

\* ------------------------------------------------------------- constants
VOBIZ_INBOUND_NUMBER == "+912271264190"
OTHER_NUMBER == "+910000000000"
AGENT_NAME == "voice-assistant"
LEGACY_AGENT == "legacy-agent"
None == "None"
URL_SET == "wss://proj.livekit.cloud"

Numbers == {VOBIZ_INBOUND_NUMBER, OTHER_NUMBER}
Terminal == {"done", "aborted", "crashed"}

VARIABLES
  trunks,           \* remote: trunk id -> set of numbers
  rules,            \* remote: rule id -> [trunk_ids, agent]
  nextTrunkId,      \* remote: next trunk identifier to assign
  nextRuleId,       \* remote: next dispatch-rule identifier to assign
  LIVEKIT_URL,      \* module global read from the environment
  pc,               \* position of main()
  lk,               \* API client handle: "none", "open", "closed"
  closes,           \* number of times aclose() was called in this run
  trunks_to_delete, \* local list of conflicting trunk ids
  ruleItems,        \* local: rules.items as returned by the list call
  i,                \* index of the loop in progress
  trunk_id,         \* local: loop variable of line 57, then the id of the
                    \* trunk created at line 78 (0: not bound yet)
  failed,           \* an exception is propagating
  calls,            \* calls of this run that have returned or raised, in order
  run,              \* number of the current invocation
  outcomes,         \* outcomes of the previous invocations
  trunks0,          \* remote trunks when this run started
  rules0            \* remote rules when this run started

vars == <<trunks, rules, nextTrunkId, nextRuleId, LIVEKIT_URL, pc, lk, closes,
          trunks_to_delete, ruleItems, i, trunk_id, failed, calls, run,
          outcomes, trunks0, rules0>>

remote == <<trunks, rules, nextTrunkId, nextRuleId>>
locals == <<trunks_to_delete, ruleItems, i, trunk_id>>
hist == <<run, outcomes, trunks0, rules0, LIVEKIT_URL>>

\* ---------------------------------------------------------------- helpers
Min(S) == CHOOSE x \in S : \A y \in S : x <= y

RECURSIVE Ascending(_)
Ascending(S) == IF S = {} THEN <<>>
                ELSE <<Min(S)>> \o Ascending(S \ {Min(S)})

Without(f, k) == [x \in DOMAIN f \ {k} |-> f[x]]

\* a remote call: operation, identifier deleted or assigned, trunk id named
\* in the request of a dispatch rule, and whether it returned
CallReq(op, id, req, ok) == [op |-> op, id |-> id, req |-> req, ok |-> ok]
Call(op, id, ok) == CallReq(op, id, 0, ok)

\* line 39: t.numbers and VOBIZ_INBOUND_NUMBER in t.numbers
IsConflictingExact(numbers) == numbers = {VOBIZ_INBOUND_NUMBER}
IsConflicting(numbers) == numbers # {} /\ VOBIZ_INBOUND_NUMBER \in numbers

\* lines 35-41: the ids of the listed trunks that use the target number
RECURSIVE Conflicts(_, _)
Conflicts(items, tr) ==
  IF items = <<>> THEN <<>>
  ELSE (IF IsConflicting(tr[Head(items)]) THEN <<Head(items)>> ELSE <<>>)
       \o Conflicts(Tail(items), tr)

\* line 44: if trunks_to_delete
HasConflictsAlways(ttd) == TRUE
HasConflictsNever(ttd) == FALSE
HasConflicts(ttd) == Len(ttd) > 0

\* line 50: any(trunk_id in r.trunk_ids for trunk_id in trunks_to_delete)
RuleLinkedFirst(trunk_ids, ttd) == Len(ttd) > 0 /\ ttd[1] \in trunk_ids
RuleLinkedAll(trunk_ids, ttd) == TRUE
RuleLinked(trunk_ids, ttd) == \E k \in 1..Len(ttd) : ttd[k] \in trunk_ids

\* lines 70-75: the trunk that is requested
NewTrunkNumbers == {VOBIZ_INBOUND_NUMBER}

\* lines 83-96: the dispatch rule that is requested
NewRuleDangling(tid) == [trunk_ids |-> {tid + 1}, agent |-> AGENT_NAME]
NewRuleLegacy(tid) == [trunk_ids |-> {tid}, agent |-> LEGACY_AGENT]
NewRule(tid) == [trunk_ids |-> {tid}, agent |-> AGENT_NAME]

\* lines 30, 118-119: a remote call c that raises ends the try block; the
\* finally clause is entered and lk.aclose() is called, with the exception
\* pending.  next is the statement that would follow the call
OnRaiseSwallow(c, next) ==
  /\ calls' = Append(calls, c)
  /\ failed' = TRUE
  /\ pc' = next
  /\ UNCHANGED <<lk, closes>>
OnRaise(c, next) ==
  /\ calls' = Append(calls, c)
  /\ failed' = TRUE
  /\ closes' = closes + 1
  /\ pc' = "finally"
  /\ UNCHANGED lk

\* ------------------------------------------------------------------- Init
InitTrunkSets ==
  UNION {[1..n -> SUBSET Numbers] : n \in 0..MaxInitTrunks}
InitRuleSets ==
  UNION {[1..m -> [trunk_ids : SUBSET (1..MaxInitTrunks), agent : {LEGACY_AGENT}]]
         : m \in 0..MaxInitRules}

Init ==
  /\ trunks \in InitTrunkSets
  /\ rules \in InitRuleSets
  /\ nextTrunkId = MaxInitTrunks + 1
  /\ nextRuleId = MaxInitRules + 1
  /\ LIVEKIT_URL \in {None, URL_SET}
  /\ pc = "start"
  /\ lk = "none"
  /\ closes = 0
  /\ trunks_to_delete = <<>>
  /\ ruleItems = <<>>
  /\ i = 1
  /\ trunk_id = 0
  /\ failed = FALSE
  /\ calls = <<>>
  /\ run = 1
  /\ outcomes = <<>>
  /\ trunks0 = trunks
  /\ rules0 = rules

\* ---------------------------------------------------------------- actions
\* line 18: lk = api.LiveKitAPI()
Construct ==
  /\ pc = "start"
  /\ lk' = "open"
  /\ pc' = "derive"
  /\ UNCHANGED <<remote, locals, hist, closes, failed, calls>>

\* line 18: the constructor of the client library may reject a missing URL
ConstructRaise ==
  /\ pc = "start"
  /\ LIVEKIT_URL = None
  /\ pc' = "crashed"
  /\ UNCHANGED <<remote, locals, hist, lk, closes, failed, calls>>

\* lines 20-28: project_id and sip_endpoint derived from a URL string
DeriveOk ==
  /\ pc = "derive"
  /\ LIVEKIT_URL # None
  /\ pc' = "list_trunks"
  /\ UNCHANGED <<remote, locals, hist, lk, closes, failed, calls>>

\* line 20: None has no replace(); the AttributeError is raised before the
\* try block is entered
DeriveCrash ==
  /\ pc = "derive"
  /\ LIVEKIT_URL = None
  /\ pc' = "crashed"
  /\ UNCHANGED <<remote, locals, hist, lk, closes, failed, calls>>

\* lines 34-44
ListTrunksOk ==
  /\ pc = "list_trunks"
  /\ calls' = Append(calls, Call("list_trunks", 0, TRUE))
  /\ trunks_to_delete' = Conflicts(Ascending(DOMAIN trunks), trunks)
  /\ pc' = IF HasConflicts(trunks_to_delete') THEN "list_rules"
           ELSE "create_trunk"
  /\ UNCHANGED <<remote, ruleItems, i, trunk_id, hist, lk, closes, failed>>

ListTrunksFail ==
  /\ pc = "list_trunks"
  /\ OnRaise(Call("list_trunks", 0, FALSE), "create_trunk")
  /\ UNCHANGED <<remote, locals, hist>>

\* line 48
ListRulesOk ==
  /\ pc = "list_rules"
  /\ calls' = Append(calls, Call("list_rules", 0, TRUE))
  /\ ruleItems' = [k \in 1..Cardinality(DOMAIN rules) |->
                    [id |-> Ascending(DOMAIN rules)[k],
                     trunk_ids |-> rules[Ascending(DOMAIN rules)[k]].trunk_ids]]
  /\ i' = 1
  /\ pc' = "del_rules"
  /\ UNCHANGED <<remote, trunks_to_delete, trunk_id, hist, lk, closes, failed>>

ListRulesFail ==
  /\ pc = "list_rules"
  /\ OnRaise(Call("list_rules", 0, FALSE), "del_trunks")
  /\ UNCHANGED <<remote, locals, hist>>

\* lines 49-50: a rule that is not linked to a conflicting trunk is passed over
SkipRule ==
  /\ pc = "del_rules"
  /\ i <= Len(ruleItems)
  /\ ~RuleLinked(ruleItems[i].trunk_ids, trunks_to_delete)
  /\ i' = i + 1
  /\ UNCHANGED <<remote, trunks_to_delete, ruleItems, trunk_id, hist, lk,
                 closes, failed, calls, pc>>

\* lines 50-54
DeleteRuleOk ==
  /\ pc = "del_rules"
  /\ i <= Len(ruleItems)
  /\ RuleLinked(ruleItems[i].trunk_ids, trunks_to_delete)
  /\ calls' = Append(calls, Call("delete_rule", ruleItems[i].id, TRUE))
  /\ rules' = Without(rules, ruleItems[i].id)
  /\ i' = i + 1
  /\ UNCHANGED <<trunks, nextTrunkId, nextRuleId, trunks_to_delete, ruleItems,
                 trunk_id, hist, lk, closes, failed, pc>>

\* the iterator of line 49 has handed out the rule when the call raises
DeleteRuleFail ==
  /\ pc = "del_rules"
  /\ i <= Len(ruleItems)
  /\ RuleLinked(ruleItems[i].trunk_ids, trunks_to_delete)
  /\ OnRaise(Call("delete_rule", ruleItems[i].id, FALSE), "del_rules")
  /\ i' = i + 1
  /\ UNCHANGED <<remote, trunks_to_delete, ruleItems, trunk_id, hist>>

\* line 49 exhausted, line 57 entered
RulesLoopExit ==
  /\ pc = "del_rules"
  /\ i > Len(ruleItems)
  /\ i' = 1
  /\ pc' = "del_trunks"
  /\ UNCHANGED <<remote, trunks_to_delete, ruleItems, trunk_id, hist, lk,
                 closes, failed, calls>>

\* lines 57-61
DeleteTrunkOk ==
  /\ pc = "del_trunks"
  /\ i <= Len(trunks_to_delete)
  /\ calls' = Append(calls, Call("delete_trunk", trunks_to_delete[i], TRUE))
  /\ trunks' = Without(trunks, trunks_to_delete[i])
  /\ trunk_id' = trunks_to_delete[i]
  /\ i' = i + 1
  /\ UNCHANGED <<rules, nextTrunkId, nextRuleId, trunks_to_delete, ruleItems,
                 hist, lk, closes, failed, pc>>

\* line 57 has bound trunk_id when the call raises
DeleteTrunkFail ==
  /\ pc = "del_trunks"
  /\ i <= Len(trunks_to_delete)
  /\ OnRaise(Call("delete_trunk", trunks_to_delete[i], FALSE), "del_trunks")
  /\ trunk_id' = trunks_to_delete[i]
  /\ i' = i + 1
  /\ UNCHANGED <<remote, trunks_to_delete, ruleItems, hist>>

\* line 57 exhausted, line 62
TrunksLoopExit ==
  /\ pc = "del_trunks"
  /\ i > Len(trunks_to_delete)
  /\ pc' = "create_trunk"
  /\ UNCHANGED <<remote, locals, hist, lk, closes, failed, calls>>

\* lines 68-79
CreateTrunkOk ==
  /\ pc = "create_trunk"
  /\ calls' = Append(calls, Call("create_trunk", nextTrunkId, TRUE))
  /\ trunks' = (nextTrunkId :> NewTrunkNumbers) @@ trunks
  /\ trunk_id' = nextTrunkId
  /\ nextTrunkId' = nextTrunkId + 1
  /\ pc' = "create_rule"
  /\ UNCHANGED <<rules, nextRuleId, trunks_to_delete, ruleItems, i, hist, lk,
                 closes, failed>>

CreateTrunkFail ==
  /\ pc = "create_trunk"
  /\ OnRaise(Call("create_trunk", 0, FALSE), "create_rule")
  /\ UNCHANGED <<remote, locals, hist>>

\* lines 83-119: the rule is created, the summary printed, the finally
\* clause entered and lk.aclose() called
CreateRuleOk ==
  /\ pc = "create_rule"
  /\ calls' = Append(calls, CallReq("create_rule", nextRuleId, trunk_id, TRUE))
  /\ rules' = (nextRuleId :> NewRule(trunk_id)) @@ rules
  /\ nextRuleId' = nextRuleId + 1
  /\ closes' = closes + 1
  /\ pc' = "finally"
  /\ UNCHANGED <<trunks, nextTrunkId, locals, hist, lk, failed>>

CreateRuleFail ==
  /\ pc = "create_rule"
  /\ OnRaise(CallReq("create_rule", 0, trunk_id, FALSE), "finally")
  /\ UNCHANGED <<remote, locals, hist>>

\* line 119: await lk.aclose() completes; a pending exception then leaves
\* main
Close ==
  /\ pc = "finally"
  /\ calls' = Append(calls, Call("close", 0, TRUE))
  /\ lk' = "closed"
  /\ pc' = IF failed THEN "aborted" ELSE "done"
  /\ UNCHANGED <<remote, locals, hist, closes, failed>>

\* lines 121-122: the script is invoked again, with the same .env.local
Rerun ==
  /\ pc \in Terminal
  /\ run < MaxRuns
  /\ run' = run + 1
  /\ outcomes' = Append(outcomes, pc)
  /\ LIVEKIT_URL' = LIVEKIT_URL
  /\ trunks0' = trunks
  /\ rules0' = rules
  /\ pc' = "start"
  /\ lk' = "none"
  /\ closes' = 0
  /\ trunks_to_delete' = <<>>
  /\ ruleItems' = <<>>
  /\ i' = 1
  /\ trunk_id' = 0
  /\ failed' = FALSE
  /\ calls' = <<>>
  /\ UNCHANGED remote

Next ==
  \/ Construct
  \/ ConstructRaise
  \/ DeriveOk
  \/ DeriveCrash
  \/ ListTrunksOk
  \/ ListTrunksFail
  \/ ListRulesOk
  \/ ListRulesFail
  \/ SkipRule
  \/ DeleteRuleOk
  \/ DeleteRuleFail
  \/ RulesLoopExit
  \/ DeleteTrunkOk
  \/ DeleteTrunkFail
  \/ TrunksLoopExit
  \/ CreateTrunkOk
  \/ CreateTrunkFail
  \/ CreateRuleOk
  \/ CreateRuleFail
  \/ Close
  \/ Rerun

Spec == Init /\ [][Next]_vars

TypeOK ==
  /\ pc \in {"start", "derive", "list_trunks", "list_rules", "del_rules",
             "del_trunks", "create_trunk", "create_rule", "finally"}
            \cup Terminal
  /\ lk \in {"none", "open", "closed"}
  /\ run \in 1..MaxRuns

\* ------------------------------------------------------ claim vocabulary
Listing(tr) == {t \in DOMAIN tr : VOBIZ_INBOUND_NUMBER \in tr[t]}
Referencing(rl, t) == {r \in DOMAIN rl : t \in rl[r].trunk_ids}
Issued(op) == {k \in 1..Len(calls) : calls[k].op = op}
\* index of the latest call made through lk.sip (the release excluded)
Latest == IF calls # <<>> /\ calls[Len(calls)].op = "close"
          THEN Len(calls) - 1 ELSE Len(calls)
OneTrunkOneRule ==
  /\ Cardinality(Listing(trunks)) = 1
  /\ \A t \in Listing(trunks) : Cardinality(Referencing(rules, t)) = 1
Intact == \A r \in DOMAIN rules : rules[r].trunk_ids \subseteq DOMAIN trunks

\* the remote state obtained from (tr, rl) by the calls of log that succeeded
RECURSIVE Replay(_, _, _)
Replay(log, tr, rl) ==
  IF log = <<>> THEN <<tr, rl>>
  ELSE LET c == Head(log) IN
       IF ~c.ok THEN Replay(Tail(log), tr, rl)
       ELSE IF c.op = "delete_rule" THEN Replay(Tail(log), tr, Without(rl, c.id))
       ELSE IF c.op = "delete_trunk" THEN Replay(Tail(log), Without(tr, c.id), rl)
       ELSE IF c.op = "create_trunk"
         THEN Replay(Tail(log), (c.id :> {VOBIZ_INBOUND_NUMBER}) @@ tr, rl)
       ELSE IF c.op = "create_rule"
         THEN Replay(Tail(log), tr,
                (c.id :> [trunk_ids |-> {c.req}, agent |-> AGENT_NAME]) @@ rl)
       ELSE Replay(Tail(log), tr, rl)

\* ----------------------------------------------------------------- claims
\* C1: a run in which no remote call fails ends, whatever the remote state
\* it started from, with exactly one trunk listing the target number, whose
\* numbers are exactly the target, and exactly one dispatch rule referencing
\* that trunk, whose trunk ids are exactly the new trunk id and whose agent
\* is AGENT_NAME.
C1_Contract ==
  pc = "done" =>
    /\ Listing(trunks) = {trunk_id}
    /\ trunks[trunk_id] = {VOBIZ_INBOUND_NUMBER}
    /\ Cardinality(Referencing(rules, trunk_id)) = 1
    /\ \A r \in Referencing(rules, trunk_id) :
         /\ rules[r].trunk_ids = {trunk_id}
         /\ rules[r].agent = AGENT_NAME
C1_Witness ==
  /\ pc = "done" /\ outcomes = <<>>
  /\ Len(trunks_to_delete) = 2
  /\ Cardinality(Issued("delete_rule")) = 2

\* C2: after n >= 1 runs in succession, none with a remote failure, there is
\* exactly one trunk listing the target number and exactly one dispatch rule
\* referencing it; in particular after the second run.
C2_Idempotent ==
  (pc = "done" /\ \A k \in 1..Len(outcomes) : outcomes[k] = "done")
  => OneTrunkOneRule
C2_Witness ==
  /\ pc = "done"
  /\ outcomes = <<"done">>
  /\ Cardinality(DOMAIN trunks0) >= 2

\* C3: when the delete call of a conflicting trunk is issued (it is the latest
\* call of the run), the delete call of every dispatch rule that referenced
\* the trunk has completed, and no dispatch rule references the trunk.
C3_RulesBeforeTrunks ==
  (Latest > 0 /\ calls[Latest].op = "delete_trunk") =>
    /\ \A r \in DOMAIN rules0 :
         calls[Latest].id \in rules0[r].trunk_ids =>
           \E j \in 1..(Latest - 1) :
             calls[j].op = "delete_rule" /\ calls[j].id = r /\ calls[j].ok
    /\ \A r \in DOMAIN rules : calls[Latest].id \notin rules[r].trunk_ids
C3_Witness ==
  \E k \in Issued("delete_trunk") :
    /\ calls[k].ok
    /\ Cardinality(Referencing(rules0, calls[k].id)) = 2

\* C4 as stated: a trunk that lists a number other than the target, and a
\* dispatch rule that references such a trunk, is never selected for
\* deletion and is unchanged.
C4_Original ==
  /\ \A t \in DOMAIN trunks0 :
       trunks0[t] \ {VOBIZ_INBOUND_NUMBER} # {} =>
         /\ t \in DOMAIN trunks /\ trunks[t] = trunks0[t]
         /\ \A k \in Issued("delete_trunk") : calls[k].id # t
  /\ \A r \in DOMAIN rules0 :
       (\E t \in rules0[r].trunk_ids \cap DOMAIN trunks0 :
           trunks0[t] \ {VOBIZ_INBOUND_NUMBER} # {}) =>
         /\ r \in DOMAIN rules /\ rules[r] = rules0[r]
         /\ \A k \in Issued("delete_rule") : calls[k].id # r

\* C4 amended: no step deletes or changes a trunk that does not list the
\* target number or a dispatch rule that references no trunk listing it, and
\* no delete call, successful or not, is issued for one.
C4_NoInterference ==
  [][/\ \A t \in DOMAIN trunks :
          VOBIZ_INBOUND_NUMBER \notin trunks[t] =>
            (t \in DOMAIN trunks' /\ trunks'[t] = trunks[t])
     /\ \A r \in DOMAIN rules :
          (\A t \in rules[r].trunk_ids :
              t \in DOMAIN trunks => VOBIZ_INBOUND_NUMBER \notin trunks[t]) =>
            (r \in DOMAIN rules' /\ rules'[r] = rules[r])
     /\ \A k \in (Len(calls) + 1)..Len(calls') :
          /\ calls'[k].op = "delete_trunk" =>
               VOBIZ_INBOUND_NUMBER \in trunks[calls'[k].id]
          /\ calls'[k].op = "delete_rule" =>
               \E t \in rules[calls'[k].id].trunk_ids :
                 t \in DOMAIN trunks /\ VOBIZ_INBOUND_NUMBER \in trunks[t]
    ]_vars
C4_Witness ==
  /\ pc = "done"
  /\ Issued("delete_rule") # {}
  /\ trunk_id \in DOMAIN trunks
  /\ \E t \in DOMAIN trunks0 :
       /\ trunks0[t] = {OTHER_NUMBER}
       /\ t \in DOMAIN trunks
       /\ \E r \in DOMAIN rules : rules[r].trunk_ids = {t}

C6_AbortOnFailure ==
  /\ \A k \in 1..Len(calls) :
       ~calls[k].ok =>
         /\ failed
         /\ \A j \in (k + 1)..Len(calls) : j = k + 1 /\ calls[j].op = "close"
  /\ failed =>
       /\ pc \in {"finally", "aborted"}
       /\ \E k \in 1..Len(calls) : ~calls[k].ok
       /\ <<trunks, rules>> = Replay(calls, trunks0, rules0)
  /\ pc = "aborted" => (Len(calls) >= 2 /\ ~calls[Len(calls) - 1].ok
                        /\ calls[Len(calls)].op = "close")
C6_Witness ==
  /\ pc = "aborted"
  /\ \E k \in Issued("delete_trunk") : ~calls[k].ok
  /\ \E k \in Issued("delete_trunk") : calls[k].ok
  /\ Issued("delete_rule") # {}

\* C7: every delete call precedes the create-trunk call, which precedes the
\* create-rule call; when create trunk is issued, no trunk lists the target
\* number and no dispatch rule references a trunk that listed it.
C7_TeardownFirst ==
  /\ (Latest > 0 /\ calls[Latest].op \in {"delete_rule", "delete_trunk"}) =>
       \A k \in 1..Latest :
         calls[k].op \notin {"create_trunk", "create_rule"}
  /\ (Latest > 0 /\ calls[Latest].op = "create_rule") =>
       /\ calls[Latest - 1].op = "create_trunk"
       /\ calls[Latest - 1].ok
       /\ calls[Latest - 1].id = calls[Latest].req
  /\ pc = "create_trunk" =>
       /\ \A t \in DOMAIN trunks : VOBIZ_INBOUND_NUMBER \notin trunks[t]
       /\ \A t \in DOMAIN trunks0 :
            VOBIZ_INBOUND_NUMBER \in trunks0[t] =>
              /\ \A r \in DOMAIN rules : t \notin rules[r].trunk_ids
              /\ \E j \in 1..Len(calls) :
                   calls[j].op = "delete_trunk" /\ calls[j].id = t /\ calls[j].ok
C7_Witness ==
  /\ pc = "done"
  /\ Cardinality(Issued("delete_trunk")) = 2
  /\ Issued("delete_rule") # {}

C8_Expected == <<"list_trunks", "create_trunk", "create_rule", "close">>

\* C8: with no trunk listing the target number the remote calls are list
\* trunks, create trunk, create dispatch rule, close client, in that order,
\* cut short only by a failure, with no list-rules and no delete call; with
\* a conflicting trunk, list dispatch rules is issued once, after list trunks
\* and before any delete call.
C8_SingleConditional ==
  IF \A t \in DOMAIN trunks0 : VOBIZ_INBOUND_NUMBER \notin trunks0[t]
  THEN /\ Len(calls) <= 4
       /\ \A k \in 1..Len(calls) :
            \/ calls[k].op = C8_Expected[k]
            \/ failed /\ k = Len(calls) /\ calls[k].op = "close"
       /\ pc = "done" => Len(calls) = 4
  ELSE /\ \A k \in 1..Len(calls) :
            /\ calls[k].op = "list_rules" =>
                 (k = 2 /\ calls[1].op = "list_trunks" /\ calls[1].ok)
            /\ calls[k].op \in {"delete_rule", "delete_trunk", "create_trunk",
                                "create_rule"} =>
                 (k > 2 /\ calls[2].op = "list_rules" /\ calls[2].ok)
       /\ pc = "done" => (calls[2].op = "list_rules" /\ calls[2].ok)
C8_Witness ==
  /\ pc = "done"
  /\ Listing(trunks0) = {}
  /\ Cardinality(DOMAIN trunks0) = 2
  /\ rules0 # <<>>

\* C9: no step of a run, successful or aborted, breaks referential integrity:
\* if every trunk id in every dispatch rule names an existing trunk before
\* the step, so it does after it.
C9_Referential == [][Intact => Intact']_vars
C9_Witness ==
  /\ pc = "aborted"
  /\ Intact
  /\ \A r \in DOMAIN rules0 : rules0[r].trunk_ids \subseteq DOMAIN trunks0
  /\ \E k \in Issued("delete_trunk") :
       calls[k].ok /\ Referencing(rules0, calls[k].id) # {}

====
